---- MODULE Spec2Model ----
(***************************************************************************)
(* A model of singularity-config-generator (src/main.go and                *)
(* src/flag_string_string_map.go): the -var override store, loadConfig,    *)
(* the JSON fragment builders, the two document templates, checkJSON and   *)
(* the process/main pipeline that writes singularity-request.json and      *)
(* singularity-deploy.json; and, under TestSpec, the hand-written JSON     *)
(* helpers of the earlier main.go as src/main_test.go calls them.          *)
(*                                                                         *)
(* Text.  A Go string or []byte is a sequence of characters, each a        *)
(* one-character TLA+ string.  One abbreviation is made: a maximal run of  *)
(* letters that the program never looks inside (a member name such as      *)
(* numRetriesOnFailure, the literals true/false/null, a word of a value)   *)
(* is kept as ONE element of the sequence.  Quotes, backslashes, braces,   *)
(* brackets, commas, colons, digits, spaces and line breaks are always     *)
(* single elements, so escaping, splitting and JSON scanning work on them  *)
(* character by character.                                                 *)
(***************************************************************************)
EXTENDS Integers, Sequences, FiniteSets, TLC

(***************************************************************************)
(* Bounds of the model.                                                    *)
(***************************************************************************)
\* longest -var argument, in characters
MaxArgLen == 3
\* most -var options on a command line
MaxVars == 2
\* most top-level keys of a YAML config file in the pipeline specification
MaxYamlKeys == 2
\* longest string handed to makeStringJSONSafe, in characters
MaxStrLen == 3
\* most calls of a helper on one input
MaxCalls == 2

(***************************************************************************)
(* Program constants (src/main.go:16-24).                                  *)
(***************************************************************************)
scheduledExpectedRuntimeMillisDefault == 360000
killOldNonLongRunningTasksAfterMillisDefault == 10000
deployFilename == "singularity-deploy.json"
requestFilename == "singularity-request.json"

\* the delimiter between the key and the value of a -var argument
varDelimeter == "="

DQ == "\""
BS == "\\"
\* a line break or tab (layout of the templates); SP is a single space
NL == "\n"
SP == " "

\* Go's nil (error, map, slice) and the absence of a file
Nil == "nil"

(***************************************************************************)
(* strings.Index / strings.SplitN / strings.Replace on character sequences *)
(***************************************************************************)
RECURSIVE IndexFrom(_, _, _)
IndexFrom(s, c, i) ==
    IF i > Len(s) THEN 0
    ELSE IF s[i] = c THEN i
    ELSE IndexFrom(s, c, i + 1)

\* strings.Index(s, sep) for a one-character sep: the first position of sep
\* in s (1-based), 0 when sep does not occur
Index(s, c) == IndexFrom(s, c, 1)

RECURSIVE LastIndexFrom(_, _, _)
LastIndexFrom(s, c, i) ==
    IF i < 1 THEN 0
    ELSE IF s[i] = c THEN i
    ELSE LastIndexFrom(s, c, i - 1)

\* mutant of SplitN: cuts at the LAST occurrence of sep
SplitN_last(s, sep, n) ==
    LET i == LastIndexFrom(s, sep, Len(s)) IN
    IF n = 1 \/ i = 0 THEN <<s>>
    ELSE <<SubSeq(s, 1, i - 1), SubSeq(s, i + 1, Len(s))>>

\* strings.SplitN(s, sep, n) for n >= 1: at most n substrings, the last one
\* the unsplit remainder
RECURSIVE SplitN(_, _, _)
SplitN(s, sep, n) ==
    LET i == Index(s, sep) IN
    IF n = 1 \/ i = 0 THEN <<s>>
    ELSE <<SubSeq(s, 1, i - 1)>> \o SplitN(SubSeq(s, i + 1, Len(s)), sep, n - 1)

(***************************************************************************)
(* Go values.  A slice or map is a record: isNil tells nil from empty, and *)
(* items holds the elements; a map's items are <<key, value>> pairs kept   *)
(* in key order, the order encoding/json writes them in.                   *)
(***************************************************************************)
NilSlice == [isNil |-> TRUE, items |-> <<>>]
MakeSlice(items) == [isNil |-> FALSE, items |-> items]
NilMap == [isNil |-> TRUE, items |-> <<>>]
MakeMap(items) == [isNil |-> FALSE, items |-> items]
\* len(x) of a slice or map
len(x) == Len(x.items)

\* a float64: an integer of the model, or NaN
Float(v) == [nan |-> FALSE, v |-> v]
NaN == [nan |-> TRUE, v |-> 0]

\* strconv.Itoa for n >= 0, digit by digit
Digit(d) ==
    CASE d = 0 -> "0" [] d = 1 -> "1" [] d = 2 -> "2" [] d = 3 -> "3"
      [] d = 4 -> "4" [] d = 5 -> "5" [] d = 6 -> "6" [] d = 7 -> "7"
      [] d = 8 -> "8" [] d = 9 -> "9"
RECURSIVE Itoa(_)
Itoa(n) == IF n < 10 THEN <<Digit(n)>> ELSE Itoa(n \div 10) \o <<Digit(n % 10)>>

(***************************************************************************)
(* The Config types (src/main.go:38-82, 134-150), zero values.             *)
(***************************************************************************)
ZeroDockerInfo ==
    [ForcePullImage |-> FALSE, Privileged |-> FALSE, Network |-> <<>>,
     Image |-> <<>>, Parameters |-> NilMap, DockerParameters |-> NilSlice,
     PortMappings |-> NilSlice]

ZeroContainerInfo ==
    [Docker |-> ZeroDockerInfo, Type |-> <<>>, Volumes |-> NilSlice]

ZeroResources ==
    [NumPorts |-> 0, MemoryMb |-> Float(0), CPUs |-> Float(0),
     DiskMb |-> Float(0)]

ZeroConfig ==
    [Command |-> <<>>, DeployID |-> <<>>, Env |-> NilMap,
     KillOldNonLongRunningTasksAfterMillis |-> 0, NumRetriesOnFailure |-> 0,
     Owners |-> NilSlice, RequestType |-> <<>>,
     RequiredSlaveAttributes |-> NilMap, Schedule |-> <<>>,
     ScheduledExpectedRuntimeMillis |-> 0, RequestID |-> <<>>,
     Arguments |-> NilSlice, ContainerInfo |-> ZeroContainerInfo,
     Resources |-> ZeroResources, URIs |-> NilSlice]

\* mutant of ConfigInit: the two default constants are swapped
ConfigInit_swapped(s) ==
    [s EXCEPT
       !.ContainerInfo.Volumes = MakeSlice(<<>>),
       !.ScheduledExpectedRuntimeMillis =
            IF @ = 0 THEN killOldNonLongRunningTasksAfterMillisDefault ELSE @,
       !.KillOldNonLongRunningTasksAfterMillis =
            IF @ = 0 THEN scheduledExpectedRuntimeMillisDefault ELSE @]

\* SingularityConfig.Init
ConfigInit(s) ==
    [s EXCEPT
       !.ContainerInfo.Volumes = MakeSlice(<<>>),
       !.ScheduledExpectedRuntimeMillis =
            IF @ = 0 THEN scheduledExpectedRuntimeMillisDefault ELSE @,
       !.KillOldNonLongRunningTasksAfterMillis =
            IF @ = 0 THEN killOldNonLongRunningTasksAfterMillisDefault ELSE @]

(***************************************************************************)
(* YAML.  The config file is kept as the mapping it denotes: a sequence of *)
(* entries [key, node] in file order.  A node is a scalar (int, nan, bool, *)
(* str), a sequence (items: nodes) or a mapping (items: entries).  Before  *)
(* templating, a top-level node can also be a template action: "field" is  *)
(* the text {{.name}} and "call" is the text {{name}}.                     *)
(***************************************************************************)
Node(kind, n, s, items) == [kind |-> kind, n |-> n, s |-> s, items |-> items]
IntNode(n) == Node("int", n, <<>>, <<>>)
NaNNode == Node("nan", 0, <<>>, <<>>)
BoolNode(b) == Node("bool", IF b THEN 1 ELSE 0, <<>>, <<>>)
StrNode(s) == Node("str", 0, s, <<>>)
SeqNode(items) == Node("seq", 0, <<>>, items)
MapNode(entries) == Node("map", 0, <<>>, entries)
FieldAction(name) == Node("field", 0, name, <<>>)
CallAction(name) == Node("call", 0, name, <<>>)
Entry(key, node) == [key |-> <<key>>, node |-> node]

\* the result of a decode step: the value and whether a type error occurred
Dec(v, bad) == [v |-> v, bad |-> bad]

\* yaml.v2 into a string field: any scalar is taken as its text
DecString(node, old) ==
    CASE node.kind = "str" -> Dec(node.s, FALSE)
      [] node.kind = "int" -> Dec(Itoa(node.n), FALSE)
      [] node.kind = "bool" -> Dec(<<IF node.n = 1 THEN "true" ELSE "false">>, FALSE)
      [] node.kind = "nan" -> Dec(<<".", "nan">>, FALSE)
      [] OTHER -> Dec(old, TRUE)

\* yaml.v2 into an int field
DecInt(node, old) ==
    IF node.kind = "int" THEN Dec(node.n, FALSE) ELSE Dec(old, TRUE)

\* yaml.v2 into a float64 field
DecFloat(node, old) ==
    CASE node.kind = "int" -> Dec(Float(node.n), FALSE)
      [] node.kind = "nan" -> Dec(NaN, FALSE)
      [] OTHER -> Dec(old, TRUE)

\* yaml.v2 into a bool field
DecBool(node, old) ==
    IF node.kind = "bool" THEN Dec(node.n = 1, FALSE) ELSE Dec(old, TRUE)

\* yaml.v2 into a []string field: a fresh slice of the items
DecStrings(node, old) ==
    IF node.kind = "seq"
    THEN Dec(MakeSlice([i \in 1..Len(node.items) |->
                          DecString(node.items[i], <<>>).v]),
             \E i \in 1..Len(node.items) : DecString(node.items[i], <<>>).bad)
    ELSE Dec(old, TRUE)

\* yaml.v2 into a map[string]string field: a nil map is made first, so the
\* mapping {} gives an empty map that is not nil; the model's mappings list
\* their keys in order and the map keeps that order
DecStringMap(node, old) ==
    IF node.kind = "map"
    THEN Dec(MakeMap([i \in 1..Len(node.items) |->
                        <<node.items[i].key,
                          DecString(node.items[i].node, <<>>).v>>]),
             \E i \in 1..Len(node.items) :
                 DecString(node.items[i].node, <<>>).bad)
    ELSE Dec(old, TRUE)

\* the field of a struct of the given type that an entry sets, defined below
RECURSIVE DecField(_, _, _)

\* yaml.v2 into a struct of the given type: the entries are decoded in file
\* order, each by DecField, which skips a key no field is tagged with
RECURSIVE DecEntries(_, _, _, _)
DecEntries(type, entries, i, acc) ==
    IF i > Len(entries) THEN acc
    ELSE LET d == DecField(type, acc.v, entries[i])
         IN DecEntries(type, entries, i + 1, Dec(d.v, acc.bad \/ d.bad))

DecStruct(type, node, old) ==
    IF node.kind = "map"
    THEN DecEntries(type, node.items, 1, Dec(old, FALSE))
    ELSE Dec(old, TRUE)

\* one field of a struct set from a decode result
Put(s, f, d) == Dec([s EXCEPT ![f] = d.v], d.bad)

VolumeField(v, e) ==
    CASE e.key = <<"hostpath">> -> Put(v, "HostPath", DecString(e.node, v.HostPath))
      [] e.key = <<"containerpath">> ->
            Put(v, "ContainerPath", DecString(e.node, v.ContainerPath))
      [] e.key = <<"mode">> -> Put(v, "Mode", DecString(e.node, v.Mode))
      [] OTHER -> Dec(v, FALSE)

ZeroVolume == [HostPath |-> <<>>, ContainerPath |-> <<>>, Mode |-> <<>>]

DecVolumes(node, old) ==
    IF node.kind = "seq"
    THEN Dec(MakeSlice([i \in 1..Len(node.items) |->
                          DecStruct("SingularityVolume", node.items[i], ZeroVolume).v]),
             \E i \in 1..Len(node.items) :
                 DecStruct("SingularityVolume", node.items[i], ZeroVolume).bad)
    ELSE Dec(old, TRUE)

PortMappingField(m, e) ==
    CASE e.key = <<"hostPort">> -> Put(m, "HostPort", DecInt(e.node, m.HostPort))
      [] e.key = <<"containerPort">> ->
            Put(m, "ContainerPort", DecInt(e.node, m.ContainerPort))
      [] e.key = <<"protocol">> -> Put(m, "Protocol", DecString(e.node, m.Protocol))
      [] OTHER -> Dec(m, FALSE)

ZeroPortMapping == [HostPort |-> 0, ContainerPort |-> 0, Protocol |-> <<>>]

DecPortMappings(node, old) ==
    IF node.kind = "seq"
    THEN Dec(MakeSlice([i \in 1..Len(node.items) |->
                 DecStruct("SingularityPortMapping", node.items[i], ZeroPortMapping).v]),
             \E i \in 1..Len(node.items) :
                 DecStruct("SingularityPortMapping", node.items[i], ZeroPortMapping).bad)
    ELSE Dec(old, TRUE)

DecStringMaps(node, old) ==
    IF node.kind = "seq"
    THEN Dec(MakeSlice([i \in 1..Len(node.items) |->
                          DecStringMap(node.items[i], NilMap).v]),
             \E i \in 1..Len(node.items) :
                 DecStringMap(node.items[i], NilMap).bad)
    ELSE Dec(old, TRUE)

DockerField(d, e) ==
    CASE e.key = <<"forcepullimage">> ->
            Put(d, "ForcePullImage", DecBool(e.node, d.ForcePullImage))
      [] e.key = <<"privileged">> -> Put(d, "Privileged", DecBool(e.node, d.Privileged))
      [] e.key = <<"network">> -> Put(d, "Network", DecString(e.node, d.Network))
      [] e.key = <<"image">> -> Put(d, "Image", DecString(e.node, d.Image))
      [] e.key = <<"parameters">> ->
            Put(d, "Parameters", DecStringMap(e.node, d.Parameters))
      [] e.key = <<"dockerParameters">> ->
            Put(d, "DockerParameters", DecStringMaps(e.node, d.DockerParameters))
      [] e.key = <<"portMappings">> ->
            Put(d, "PortMappings", DecPortMappings(e.node, d.PortMappings))
      [] OTHER -> Dec(d, FALSE)

ContainerInfoField(c, e) ==
    CASE e.key = <<"docker">> -> Put(c, "Docker", DecStruct("SingularityDockerInfo", e.node, c.Docker))
      [] e.key = <<"type">> -> Put(c, "Type", DecString(e.node, c.Type))
      [] e.key = <<"volumes">> -> Put(c, "Volumes", DecVolumes(e.node, c.Volumes))
      [] OTHER -> Dec(c, FALSE)

ResourcesField(r, e) ==
    CASE e.key = <<"num-ports">> -> Put(r, "NumPorts", DecInt(e.node, r.NumPorts))
      [] e.key = <<"memory-mb">> -> Put(r, "MemoryMb", DecFloat(e.node, r.MemoryMb))
      [] e.key = <<"cpus">> -> Put(r, "CPUs", DecFloat(e.node, r.CPUs))
      [] e.key = <<"disk-mb">> -> Put(r, "DiskMb", DecFloat(e.node, r.DiskMb))
      [] OTHER -> Dec(r, FALSE)

\* the yaml tags of SingularityConfig (an untagged field has its lower-cased name)
ConfigField(c, e) ==
    CASE e.key = <<"command">> -> Put(c, "Command", DecString(e.node, c.Command))
      [] e.key = <<"deploy-id">> -> Put(c, "DeployID", DecString(e.node, c.DeployID))
      [] e.key = <<"env">> -> Put(c, "Env", DecStringMap(e.node, c.Env))
      [] e.key = <<"kill-old-non-long-running-tasks-after-millis">> ->
            Put(c, "KillOldNonLongRunningTasksAfterMillis",
                DecInt(e.node, c.KillOldNonLongRunningTasksAfterMillis))
      [] e.key = <<"num-retries-on-failure">> ->
            Put(c, "NumRetriesOnFailure", DecInt(e.node, c.NumRetriesOnFailure))
      [] e.key = <<"owners">> -> Put(c, "Owners", DecStrings(e.node, c.Owners))
      [] e.key = <<"request-type">> ->
            Put(c, "RequestType", DecString(e.node, c.RequestType))
      [] e.key = <<"required-slave-attributes">> ->
            Put(c, "RequiredSlaveAttributes",
                DecStringMap(e.node, c.RequiredSlaveAttributes))
      [] e.key = <<"schedule">> -> Put(c, "Schedule", DecString(e.node, c.Schedule))
      [] e.key = <<"scheduled-expected-runtime-millis">> ->
            Put(c, "ScheduledExpectedRuntimeMillis",
                DecInt(e.node, c.ScheduledExpectedRuntimeMillis))
      [] e.key = <<"request-id">> -> Put(c, "RequestID", DecString(e.node, c.RequestID))
      [] e.key = <<"arguments">> -> Put(c, "Arguments", DecStrings(e.node, c.Arguments))
      [] e.key = <<"container-info">> ->
            Put(c, "ContainerInfo",
                DecStruct("SingularityContainerInfo", e.node, c.ContainerInfo))
      [] e.key = <<"resources">> ->
            Put(c, "Resources", DecStruct("Resources", e.node, c.Resources))
      [] e.key = <<"uris">> -> Put(c, "URIs", DecStrings(e.node, c.URIs))
      [] OTHER -> Dec(c, FALSE)

DecField(type, acc, e) ==
    CASE type = "SingularityConfig" -> ConfigField(acc, e)
      [] type = "SingularityContainerInfo" -> ContainerInfoField(acc, e)
      [] type = "SingularityDockerInfo" -> DockerField(acc, e)
      [] type = "SingularityPortMapping" -> PortMappingField(acc, e)
      [] type = "SingularityVolume" -> VolumeField(acc, e)
      [] type = "Resources" -> ResourcesField(acc, e)

\* yaml.Unmarshal(in, &out): the fields the document names are set, the others
\* keep the value they had; a type mismatch is reported as an error
Unmarshal(in, out) ==
    LET d == DecEntries("SingularityConfig", in, 1, Dec(out, FALSE))
    IN [err |-> IF d.bad THEN "yaml.TypeError" ELSE Nil, out |-> d.v]

(***************************************************************************)
(* encoding/json.Marshal, by type.  A result is [err, j]: on an error j is *)
(* nil (the empty byte sequence).                                          *)
(***************************************************************************)
Ok(j) == [err |-> Nil, j |-> j]
Failed(e) == [err |-> e, j |-> <<>>]

RECURSIVE Flatten(_)
\* the concatenation of a sequence of byte sequences
Flatten(ss) == IF ss = <<>> THEN <<>> ELSE Head(ss) \o Flatten(Tail(ss))

RECURSIVE Join(_, _)
\* strings.Join / the encoder's comma between members
Join(ss, sep) ==
    IF ss = <<>> THEN <<>>
    ELSE IF Len(ss) = 1 THEN ss[1]
    ELSE ss[1] \o sep \o Join(Tail(ss), sep)

\* the encoder's escape of one character of a string
EscapeChar(c) ==
    CASE c = DQ -> <<BS, DQ>>
      [] c = BS -> <<BS, BS>>
      [] c = NL -> <<BS, "n">>
      [] c = "<" -> <<BS, "u003c">>
      [] c = ">" -> <<BS, "u003e">>
      [] c = "&" -> <<BS, "u0026">>
      [] OTHER -> <<c>>

MarshalString(s) ==
    Ok(<<DQ>> \o Flatten([i \in 1..Len(s) |-> EscapeChar(s[i])]) \o <<DQ>>)

MarshalInt(n) == Ok(Itoa(n))

MarshalBool(b) == Ok(<<IF b THEN "true" ELSE "false">>)

\* a NaN is an UnsupportedValueError
MarshalFloat(f) == IF f.nan THEN Failed("json.UnsupportedValueError") ELSE Ok(Itoa(f.v))

\* the first error among results, Nil when there is none
RECURSIVE FirstErr(_)
FirstErr(rs) ==
    IF rs = <<>> THEN Nil
    ELSE IF Head(rs).err # Nil THEN Head(rs).err
    ELSE FirstErr(Tail(rs))

\* a slice whose elements are already marshalled: null when nil
MarshalArray(isNil, rs) ==
    IF isNil THEN Ok(<<"null">>)
    ELSE IF FirstErr(rs) # Nil THEN Failed(FirstErr(rs))
    ELSE Ok(<<"[">> \o Join([i \in 1..Len(rs) |-> rs[i].j], <<",">>) \o <<"]">>)

MarshalStrings(x) ==
    MarshalArray(x.isNil, [i \in 1..Len(x.items) |-> MarshalString(x.items[i])])

\* a map[string]string: null when nil, else its members in key order
MarshalStringMap(m) ==
    IF m.isNil THEN Ok(<<"null">>)
    ELSE Ok(<<"{">>
            \o Join([i \in 1..Len(m.items) |->
                       MarshalString(m.items[i][1]).j \o <<":">>
                       \o MarshalString(m.items[i][2]).j], <<",">>)
            \o <<"}">>)

\* a struct field: its json name, its marshalled value, and whether the
\* omitempty option drops it
Member(name, r, omit) == [name |-> name, r |-> r, omit |-> omit]

\* a struct: the members that are not dropped, in field order
MarshalStruct(members) ==
    LET kept == SelectSeq(members, LAMBDA m : ~m.omit)
    IN IF FirstErr([i \in 1..Len(kept) |-> kept[i].r]) # Nil
       THEN Failed(FirstErr([i \in 1..Len(kept) |-> kept[i].r]))
       ELSE Ok(<<"{">>
               \o Join([i \in 1..Len(kept) |->
                          <<DQ, kept[i].name, DQ, ":">> \o kept[i].r.j], <<",">>)
               \o <<"}">>)

\* SingularityVolume (src/main.go:78-82)
MarshalVolume(v) ==
    MarshalStruct(<<
        Member("hostPath", MarshalString(v.HostPath), v.HostPath = <<>>),
        Member("containerPath", MarshalString(v.ContainerPath), v.ContainerPath = <<>>),
        Member("mode", MarshalString(v.Mode), v.Mode = <<>>)>>)

\* SingularityPortMapping (src/main.go:63-69); the two port-type members are
\* empty structs, which omitempty never drops
MarshalPortMapping(m) ==
    MarshalStruct(<<
        Member("hostPort", MarshalInt(m.HostPort), FALSE),
        Member("containerPort", MarshalInt(m.ContainerPort), FALSE),
        Member("containerPortType", Ok(<<"{", "}">>), FALSE),
        Member("protocol", MarshalString(m.Protocol), m.Protocol = <<>>),
        Member("hostPortType", Ok(<<"{", "}">>), FALSE)>>)

\* SingularityDockerInfo (src/main.go:142-150)
MarshalDockerInfo(d) ==
    MarshalStruct(<<
        Member("forcePullImage", MarshalBool(d.ForcePullImage), ~d.ForcePullImage),
        Member("privileged", MarshalBool(d.Privileged), FALSE),
        Member("network", MarshalString(d.Network), FALSE),
        Member("image", MarshalString(d.Image), FALSE),
        Member("parameters", MarshalStringMap(d.Parameters), len(d.Parameters) = 0),
        Member("dockerParameters",
               MarshalArray(d.DockerParameters.isNil,
                            [i \in 1..len(d.DockerParameters) |->
                               MarshalStringMap(d.DockerParameters.items[i])]),
               len(d.DockerParameters) = 0),
        Member("portMappings",
               MarshalArray(d.PortMappings.isNil,
                            [i \in 1..len(d.PortMappings) |->
                               MarshalPortMapping(d.PortMappings.items[i])]),
               len(d.PortMappings) = 0)>>)

\* SingularityContainerInfo (src/main.go:134-138): volumes has omitempty, so
\* a slice of length 0 is dropped whether it is nil or not
MarshalContainerInfo(c) ==
    MarshalStruct(<<
        Member("docker", MarshalDockerInfo(c.Docker), FALSE),
        Member("type", MarshalString(c.Type), FALSE),
        Member("volumes",
               MarshalArray(c.Volumes.isNil,
                            [i \in 1..len(c.Volumes) |->
                               MarshalVolume(c.Volumes.items[i])]),
               len(c.Volumes) = 0)>>)

\* the Resources struct (src/main.go:52-57): every member has omitempty
MarshalResources(r) ==
    MarshalStruct(<<
        Member("numPorts", MarshalInt(r.NumPorts), r.NumPorts = 0),
        Member("memoryMb", MarshalFloat(r.MemoryMb), ~r.MemoryMb.nan /\ r.MemoryMb.v = 0),
        Member("cpus", MarshalFloat(r.CPUs), ~r.CPUs.nan /\ r.CPUs.v = 0),
        Member("diskMb", MarshalFloat(r.DiskMb), ~r.DiskMb.nan /\ r.DiskMb.v = 0)>>)

(***************************************************************************)
(* The fragment builders (src/main.go:152-226).                            *)
(***************************************************************************)
\* marshalJSON(elementName, i), given json.Marshal(i): the error is logged
\* and the bytes, nil on an error, are formatted with `"%s": %s,`
marshalJSON(elementName, m) == <<DQ, elementName, DQ, ":", SP>> \o m.j \o <<",">>

\* mutant of WriteContainerInfo: the fragment is built for every Config
WriteContainerInfo_unguarded(s) ==
    marshalJSON("containerInfo", MarshalContainerInfo(s.ContainerInfo))

WriteContainerInfo(s) ==
    IF s.ContainerInfo.Type = <<>> THEN <<>>
    ELSE marshalJSON("containerInfo", MarshalContainerInfo(s.ContainerInfo))

\* mutant of WriteOwners: the test for an empty list is missing
WriteOwners_unguarded(s) == marshalJSON("owners", MarshalStrings(s.Owners))

WriteOwners(s) ==
    IF len(s.Owners) = 0 THEN <<>> ELSE marshalJSON("owners", MarshalStrings(s.Owners))

WriteResources(s) == marshalJSON("resources", MarshalResources(s.Resources))

WriteSchedule(s) ==
    IF s.Schedule = <<>> THEN <<>> ELSE marshalJSON("schedule", MarshalString(s.Schedule))

WriteEnv(s) ==
    IF len(s.Env) = 0 THEN <<>> ELSE marshalJSON("env", MarshalStringMap(s.Env))

WriteRequiredSlaveAttributes(s) ==
    IF s.RequiredSlaveAttributes.isNil THEN <<>>
    ELSE marshalJSON("requiredSlaveAttributes",
                     MarshalStringMap(s.RequiredSlaveAttributes))

WriteArguments(s) ==
    IF len(s.Arguments) = 0 THEN <<>>
    ELSE marshalJSON("arguments", MarshalStrings(s.Arguments))

(***************************************************************************)
(* text/template.  A template source is a sequence of pieces: literal text *)
(* and actions {{.Name}}; rtrim marks an action closed with -}}, which     *)
(* trims the white space that follows it.                                  *)
(***************************************************************************)
Text(t) == [action |-> FALSE, name |-> "", rtrim |-> FALSE, text |-> t]
Action(name) == [action |-> TRUE, name |-> name, rtrim |-> FALSE, text |-> <<>>]
ActionTrim(name) == [action |-> TRUE, name |-> name, rtrim |-> TRUE, text |-> <<>>]

IsSpace(c) == c \in {SP, NL}

RECURSIVE TrimLeft(_)
TrimLeft(t) == IF t # <<>> /\ IsSpace(Head(t)) THEN TrimLeft(Tail(t)) ELSE t

\* template.Parse: the text after an action closed with -}} loses its leading
\* white space
Parse(src) ==
    [i \in 1..Len(src) |->
        IF ~src[i].action /\ i > 1 /\ src[i - 1].action /\ src[i - 1].rtrim
        THEN Text(TrimLeft(src[i].text))
        ELSE src[i]]

SingularityRequestTemplate == <<
    Text(<<NL, "{", NL>>),
    ActionTrim("WriteOwners"), Text(<<NL>>),
    ActionTrim("WriteRequiredSlaveAttributes"), Text(<<NL>>),
    ActionTrim("WriteSchedule"),
    Text(<<NL, DQ, "killOldNonLongRunningTasksAfterMillis", DQ, ":", SP>>),
    Action("KillOldNonLongRunningTasksAfterMillis"),
    Text(<<",", NL, DQ, "numRetriesOnFailure", DQ, ":", SP>>),
    Action("NumRetriesOnFailure"),
    Text(<<",", NL, DQ, "requestType", DQ, ":", SP, DQ>>),
    ActionTrim("RequestType"),
    Text(<<DQ, ",", NL, DQ, "scheduledExpectedRuntimeMillis", DQ, ":", SP>>),
    Action("ScheduledExpectedRuntimeMillis"),
    Text(<<",", NL, DQ, "id", DQ, ":", SP, DQ>>),
    ActionTrim("RequestID"),
    Text(<<DQ, NL, "}", NL>>)>>

\* mutant of SingularityDeployTemplate: the resources fragment is moved after
\* the guaranteed members, just before the closing brace
SingularityDeployTemplate_resourcesLast == <<
    Text(<<NL, "{", NL, DQ, "deploy", DQ, ":", SP, "{", NL>>),
    Action("WriteArguments"), Text(<<NL>>),
    Action("WriteContainerInfo"), Text(<<NL>>),
    Action("WriteEnv"),
    Text(<<NL, DQ, "requestId", DQ, ":", SP, DQ>>),
    Action("RequestID"),
    Text(<<DQ, ",", NL, DQ, "id", DQ, ":", SP, DQ>>),
    Action("DeployID"),
    Text(<<DQ, ",", NL>>),
    Action("WriteResources"),
    Text(<<NL, "}", NL, "}", NL>>)>>

SingularityDeployTemplate == <<
    Text(<<NL, "{", NL, DQ, "deploy", DQ, ":", SP, "{", NL>>),
    Action("WriteArguments"), Text(<<NL>>),
    Action("WriteContainerInfo"), Text(<<NL>>),
    Action("WriteEnv"), Text(<<NL>>),
    Action("WriteResources"),
    Text(<<NL, DQ, "requestId", DQ, ":", SP, DQ>>),
    Action("RequestID"),
    Text(<<DQ, ",", NL, DQ, "id", DQ, ":", SP, DQ>>),
    Action("DeployID"),
    Text(<<DQ, NL, "}", NL, "}", NL>>)>>

\* init(): the two templates are parsed once
requestTemplate == Parse(SingularityRequestTemplate)
deployTemplate == Parse(SingularityDeployTemplate)

\* the value of {{.name}} on a SingularityConfig, printed as text/template
\* prints it: a string as it is, without quoting or escaping, an int in decimal
EvalField(name, s) ==
    CASE name = "WriteOwners" -> WriteOwners(s)
      [] name = "WriteRequiredSlaveAttributes" -> WriteRequiredSlaveAttributes(s)
      [] name = "WriteSchedule" -> WriteSchedule(s)
      [] name = "WriteArguments" -> WriteArguments(s)
      [] name = "WriteContainerInfo" -> WriteContainerInfo(s)
      [] name = "WriteEnv" -> WriteEnv(s)
      [] name = "WriteResources" -> WriteResources(s)
      [] name = "KillOldNonLongRunningTasksAfterMillis" ->
            Itoa(s.KillOldNonLongRunningTasksAfterMillis)
      [] name = "NumRetriesOnFailure" -> Itoa(s.NumRetriesOnFailure)
      [] name = "ScheduledExpectedRuntimeMillis" ->
            Itoa(s.ScheduledExpectedRuntimeMillis)
      [] name = "RequestType" -> s.RequestType
      [] name = "RequestID" -> s.RequestID
      [] name = "DeployID" -> s.DeployID

\* tmpl.Execute(buffer, singularityConfig): every action of the two templates
\* names a field or method of SingularityConfig and the buffer cannot fail,
\* so the error is always nil
Execute(t, s) ==
    [err |-> Nil,
     out |-> Flatten([i \in 1..Len(t) |->
                IF t[i].action THEN EvalField(t[i].name, s) ELSE t[i].text])]

(***************************************************************************)
(* checkJSON: json.Unmarshal into an interface{} accepts exactly one JSON  *)
(* value surrounded by white space.  The scanner below returns the index   *)
(* after what it read, or 0 for a syntax error.                            *)
(***************************************************************************)
\* the character at index i, the empty string past the end
At(b, i) == IF i >= 1 /\ i <= Len(b) THEN b[i] ELSE ""

Digits == {"0", "1", "2", "3", "4", "5", "6", "7", "8", "9"}

RECURSIVE SkipSpace(_, _)
SkipSpace(b, i) == IF IsSpace(At(b, i)) THEN SkipSpace(b, i + 1) ELSE i

\* inside a string, from index i: a quote ends it, a backslash must start a
\* valid escape, a line break (a control character) is an error
RECURSIVE ScanString(_, _)
ScanString(b, i) ==
    LET c == At(b, i) IN
    CASE c = "" -> 0
      [] c = DQ -> i + 1
      [] c = NL -> 0
      [] c = BS -> IF At(b, i + 1) \in {DQ, BS, "/", "b", "f", "n", "r", "t",
                                         "u003c", "u003e", "u0026"}
                   THEN ScanString(b, i + 2) ELSE 0
      [] OTHER -> ScanString(b, i + 1)

RECURSIVE ScanDigits(_, _)
ScanDigits(b, i) == IF At(b, i) \in Digits THEN ScanDigits(b, i + 1) ELSE i

\* an integer literal: a leading zero stands alone
ScanNumber(b, i) ==
    LET j == IF At(b, i) = "-" THEN i + 1 ELSE i IN
    IF At(b, j) = "0" THEN (IF At(b, j + 1) \in Digits THEN 0 ELSE j + 1)
    ELSE IF At(b, j) \in Digits THEN ScanDigits(b, j)
    ELSE 0

RECURSIVE ScanValue(_, _)
RECURSIVE ScanMembers(_, _)
RECURSIVE ScanElements(_, _)

\* the members of an object from index i, which is past the opening brace
\* or a comma, and the closing brace
ScanMembers(b, i) ==
    IF At(b, i) # DQ THEN 0
    ELSE LET k == ScanString(b, i + 1) IN
         IF k = 0 \/ At(b, SkipSpace(b, k)) # ":" THEN 0
         ELSE LET v == ScanValue(b, SkipSpace(b, SkipSpace(b, k) + 1)) IN
              IF v = 0 THEN 0
              ELSE LET m == SkipSpace(b, v) IN
                   CASE At(b, m) = "," -> ScanMembers(b, SkipSpace(b, m + 1))
                     [] At(b, m) = "}" -> m + 1
                     [] OTHER -> 0

ScanElements(b, i) ==
    LET v == ScanValue(b, i) IN
    IF v = 0 THEN 0
    ELSE LET m == SkipSpace(b, v) IN
         CASE At(b, m) = "," -> ScanElements(b, SkipSpace(b, m + 1))
           [] At(b, m) = "]" -> m + 1
           [] OTHER -> 0

ScanValue(b, i) ==
    LET c == At(b, i) IN
    CASE c = "{" -> (LET j == SkipSpace(b, i + 1)
                     IN IF At(b, j) = "}" THEN j + 1 ELSE ScanMembers(b, j))
      [] c = "[" -> (LET j == SkipSpace(b, i + 1)
                     IN IF At(b, j) = "]" THEN j + 1 ELSE ScanElements(b, j))
      [] c = DQ -> ScanString(b, i + 1)
      [] c \in Digits \cup {"-"} -> ScanNumber(b, i)
      [] c \in {"true", "false", "null"} -> i + 1
      [] OTHER -> 0

\* checkJSON(b): nil, or the error of json.Unmarshal
checkJSON(b) ==
    LET v == ScanValue(b, SkipSpace(b, 1)) IN
    IF v # 0 /\ SkipSpace(b, v) = Len(b) + 1 THEN Nil ELSE "json.SyntaxError"

(***************************************************************************)
(* The stringmap of -var (src/flag_string_string_map.go:11-32): a function *)
(* from keys to values.                                                    *)
(***************************************************************************)
EmptyStringmap == [k \in {} |-> <<>>]

\* mutant of Set: a key that is already set keeps its first value
Set_keepFirst(s, v) ==
    LET keyvalue == SplitN(v, varDelimeter, 2) IN
    IF Len(keyvalue) = 2
    THEN [fatal |-> FALSE,
          s |-> [k \in DOMAIN s \cup {keyvalue[1]} |->
                    IF k \in DOMAIN s THEN s[k] ELSE keyvalue[2]]]
    ELSE [fatal |-> TRUE, s |-> s]

\* mutant of Set: an argument without delimiter is stored with an empty value
\* and the program goes on
Set_lenient(s, v) ==
    LET keyvalue == SplitN(v, varDelimeter, 2)
        key == keyvalue[1]
        value == IF Len(keyvalue) = 2 THEN keyvalue[2] ELSE <<>>
    IN [fatal |-> FALSE,
        s |-> [k \in DOMAIN s \cup {key} |-> IF k = key THEN value ELSE s[k]]]

\* (*stringmap).Set(v): fatal is log.Fatalf, which exits the process
Set(s, v) ==
    LET keyvalue == SplitN(v, varDelimeter, 2) IN
    IF Len(keyvalue) = 2
    THEN [fatal |-> FALSE,
          s |-> [k \in DOMAIN s \cup {keyvalue[1]} |->
                    IF k = keyvalue[1] THEN keyvalue[2] ELSE s[k]]]
    ELSE [fatal |-> TRUE, s |-> s]

(***************************************************************************)
(* The hand-written JSON helpers of the earlier main.go                    *)
(* (src/flag_string_string_map.go:193-261), exercised by src/main_test.go. *)
(* A map[string]string is a function from keys to values; the order in    *)
(* which `range m` visits the keys is not specified by Go and differs from *)
(* run to run, so the helpers take that order as a parameter.              *)
(***************************************************************************)
\* strings.Replace(s, old, new, n) for a one-character old: the first n
\* occurrences are replaced, all of them when n < 0
RECURSIVE Replace(_, _, _, _)
Replace(s, old, new, n) ==
    IF s = <<>> \/ n = 0 THEN s
    ELSE IF Head(s) = old THEN new \o Replace(Tail(s), old, new, n - 1)
    ELSE <<Head(s)>> \o Replace(Tail(s), old, new, n)

\* mutant of makeStringJSONSafe: only the first double quote is replaced
makeStringJSONSafe_first(s) == Replace(s, DQ, <<BS, DQ>>, 1)

makeStringJSONSafe(s) == Replace(s, DQ, <<BS, DQ>>, -1)

\* the orders in which `range m` can visit the keys of m
RangeOrders(m) ==
    {o \in [1..Cardinality(DOMAIN m) -> DOMAIN m] :
        \A i, j \in DOMAIN o : i # j => o[i] # o[j]}

\* WriteMapItems(m), with the order of its range loop
WriteMapItems(m, order) ==
    IF Cardinality(DOMAIN m) = 0 THEN <<>>
    ELSE Join([i \in 1..Len(order) |->
                 <<DQ>> \o order[i] \o <<DQ, ":", DQ>>
                 \o makeStringJSONSafe(m[order[i]]) \o <<DQ>>], <<",">>)

\* WriteMap(key, m), with the order of the range loop of WriteMapItems
WriteMap(key, m, order) ==
    IF Cardinality(DOMAIN m) = 0 THEN <<>>
    ELSE <<DQ>> \o key \o <<DQ, ":", SP, "{">>
         \o WriteMapItems(m, order) \o <<"}", ",">>

(***************************************************************************)
(* The config template of loadConfig (src/main.go:344-368).                *)
(***************************************************************************)
\* template.ParseFiles on the content of the config file: the text {{name}}
\* calls a function no template defines, which is a parse error
ParseFiles(content) ==
    IF \E i \in 1..Len(content) : content[i].node.kind = "call"
    THEN [err |-> "template: function not defined", tmpl |-> <<>>]
    ELSE [err |-> Nil, tmpl |-> content]

\* configTemplate.Execute(rawConfig, data): {{.name}} is replaced by the
\* value data has for name and, when data has none, by the text <no value>
ExecuteConfig(t, data) ==
    [i \in 1..Len(t) |->
        IF t[i].node.kind = "field"
        THEN [key |-> t[i].key,
              node |-> StrNode(IF t[i].node.s \in DOMAIN data
                               THEN data[t[i].node.s]
                               ELSE <<"<", "no", SP, "value", ">">>)]
        ELSE t[i]]

(***************************************************************************)
(* Files.                                                                  *)
(***************************************************************************)
NoFile == [exists |-> FALSE, bytes |-> <<>>]
File(b) == [exists |-> TRUE, bytes |-> b]

\* what the file system can do to a writeFile: succeed, fail in os.Create,
\* fail in f.Write with nothing or with a part of the bytes written
WriteOutcomes == {"ok", "create fails", "write fails", "short write"}

\* writeFile(filename, b) on the files fs
writeFile(fs, filename, b, outcome) ==
    CASE outcome = "ok" ->
            [err |-> Nil, fs |-> [fs EXCEPT ![filename] = File(b)]]
      [] outcome = "create fails" ->
            [err |-> "os.PathError", fs |-> fs]
      [] outcome = "write fails" ->
            [err |-> "os.PathError", fs |-> [fs EXCEPT ![filename] = File(<<>>)]]
      [] outcome = "short write" ->
            [err |-> "io.ErrShortWrite",
             fs |-> [fs EXCEPT ![filename] = File(SubSeq(b, 1, Len(b) \div 2))]]

(***************************************************************************)
(* Inputs.                                                                 *)
(***************************************************************************)
SeqsUpTo(S, n) == UNION {[1..k -> S] : k \in 0..n}

\* every -var argument of at most MaxArgLen characters over a letter and the
\* delimiter
ArgStrings == SeqsUpTo({"a", varDelimeter}, MaxArgLen)

\* the options of a YAML config file, grouped by top-level key
OptionGroups == <<
    {Entry("scheduled-expected-runtime-millis", IntNode(0)),
     Entry("scheduled-expected-runtime-millis", IntNode(5))},
    {Entry("kill-old-non-long-running-tasks-after-millis", IntNode(0)),
     Entry("kill-old-non-long-running-tasks-after-millis", IntNode(7)),
     Entry("kill-old-non-long-running-tasks-after-millis", StrNode(<<"soon">>))},
    {Entry("request-id", StrNode(<<"r">>)),
     Entry("request-id", StrNode(<<"r", DQ>>)),
     Entry("request-id", FieldAction(<<"a">>)),
     Entry("request-id", CallAction(<<"a">>))},
    {Entry("deploy-id", StrNode(<<"d">>)),
     Entry("deploy-id", StrNode(<<"d", DQ>>))},
    {Entry("request-type", StrNode(<<"RUN_ONCE">>))},
    {Entry("owners", SeqNode(<<StrNode(<<"o">>)>>)),
     Entry("owners", SeqNode(<<>>))},
    {Entry("required-slave-attributes", MapNode(<<>>)),
     Entry("required-slave-attributes", MapNode(<<Entry("k", StrNode(<<"v">>))>>))},
    {Entry("schedule", StrNode(<<"s">>))},
    {Entry("arguments", SeqNode(<<StrNode(<<"-", "x", DQ>>)>>))},
    {Entry("container-info", MapNode(<<Entry("type", StrNode(<<"DOCKER">>))>>)),
     Entry("container-info",
           MapNode(<<Entry("type", StrNode(<<"DOCKER">>)),
                     Entry("docker",
                           MapNode(<<Entry("image", StrNode(<<"img">>)),
                                     Entry("privileged", BoolNode(TRUE)),
                                     Entry("parameters",
                                           MapNode(<<Entry("p", StrNode(<<"q">>))>>)),
                                     Entry("portMappings",
                                           SeqNode(<<MapNode(<<Entry("hostPort",
                                                                     IntNode(0))>>)>>))>>)),
                     Entry("volumes",
                           SeqNode(<<MapNode(<<Entry("hostpath",
                                                     StrNode(<<"/", "h">>))>>)>>))>>)),
     Entry("container-info",
           MapNode(<<Entry("docker",
                           MapNode(<<Entry("image", StrNode(<<"img">>))>>))>>))},
    {Entry("env", MapNode(<<Entry("e", StrNode(<<"v">>))>>)),
     Entry("env", MapNode(<<>>))},
    {Entry("resources", MapNode(<<Entry("cpus", IntNode(1))>>)),
     Entry("resources", MapNode(<<Entry("memory-mb", NaNNode)>>))}>>

\* the files that take at most n options from the groups i, i+1, ...
RECURSIVE DocsOver(_, _, _)
DocsOver(groups, i, n) ==
    IF i > Len(groups) \/ n = 0 THEN {<<>>}
    ELSE DocsOver(groups, i + 1, n)
         \cup {<<e>> \o d : e \in groups[i], d \in DocsOver(groups, i + 1, n - 1)}

\* the groups of the seven optional members of the two documents
MemberGroups == SubSeq(OptionGroups, Len(OptionGroups) - 6, Len(OptionGroups))

\* config files: any MaxYamlKeys options, and every combination of present
\* and absent optional members
ConfigFiles ==
    DocsOver(OptionGroups, 1, MaxYamlKeys)
    \cup DocsOver(MemberGroups, 1, Len(MemberGroups))

\* -var options for templated config files: plain values for the keys a and
\* aa, and for a a value that itself holds the action {{.aa}}
VarOptions ==
    {<<"a", "=", "x">>, <<"a", "a", "=", "y">>,
     <<"a", "=", "{{", ".", "a", "a", "}}">>}

\* templated config files: request-id and deploy-id given by actions on the
\* keys a and aa, in the forms {{.name}} and {{name}}
TemplatedGroups == <<
    {Entry("request-id", FieldAction(<<"a">>)),
     Entry("request-id", CallAction(<<"a">>))},
    {Entry("deploy-id", FieldAction(<<"a", "a">>)),
     Entry("deploy-id", CallAction(<<"a", "a">>)),
     Entry("deploy-id", StrNode(<<"d">>))}>>

TemplatedFiles == DocsOver(TemplatedGroups, 1, Len(TemplatedGroups))

\* the string of TestMakeStringJSONSafe: {"i":"am","a":"test"}
TestString ==
    <<"{", DQ, "i", DQ, ":", DQ, "am", DQ, ",", DQ, "a", DQ, ":", DQ, "test",
      DQ, "}">>

\* strings handed to makeStringJSONSafe
SafeInputs == SeqsUpTo({"a", DQ, BS}, MaxStrLen) \cup {TestString}

\* the mappings handed to WriteMap and WriteMapItems: any of the keys key1,
\* key2 of the tests, with values of the tests or a value with a quote
TestKeys == {<<"key", "1">>, <<"key", "2">>}
TestValues == {<<"value", "1">>, <<"value", "2">>, <<"v", DQ>>}
TestMaps == UNION {[ks -> TestValues] : ks \in SUBSET TestKeys}

\* a helper call of the tests: the function, its arguments, and the strings
\* the calls made so far returned
Call(fn, key, m, str) == [fn |-> fn, key |-> key, m |-> m, str |-> str, outs |-> <<>>]
NoCall == Call("", <<>>, EmptyStringmap, <<>>)
TestCalls ==
    {Call("makeStringJSONSafe", <<>>, EmptyStringmap, str) : str \in SafeInputs}
    \cup {Call("WriteMapItems", <<>>, m, <<>>) : m \in TestMaps}
    \cup {Call("WriteMap", <<"element">>, m, <<>>) : m \in TestMaps}

(***************************************************************************)
(* State.                                                                  *)
(***************************************************************************)
VARIABLES
    argv,               \* the -var values of the command line not yet parsed
    configFileOnDisk,   \* the file named by -config-file
    files,              \* the output files, by name
    commandLineVars,    \* the stringmap of -var
    pc,                 \* position in main
    status,             \* "running", "exit 0", "fatal" (exit 1), "panic"
    singularityConfig,  \* the SingularityConfig of loadConfig and main
    configTemplate,     \* loadConfig's parsed config template
    rawConfig,          \* loadConfig's templated YAML
    tmpl,               \* the document process works on: "request", "deploy"
    jsonOutput,         \* process's buffer
    err,                \* the last error returned
    trace,              \* history: the stages executed so far, with outcome
    lib                 \* the helper call of a test, NoCall in a run of main

vars == <<argv, configFileOnDisk, files, commandLineVars, pc, status,
          singularityConfig, configTemplate, rawConfig, tmpl, jsonOutput,
          err, trace, lib>>

\* an entry of the history: the stage, the document it worked on, the bytes
\* it was given (the argument of Set, checkJSON or writeFile) and whether it
\* ended without error
Stage(name, doc, arg, ok) == [stage |-> name, doc |-> doc, arg |-> arg, ok |-> ok]

\* the command lines and config files of the model: any -var options with an
\* empty config file, no -var option with any or no config file, or -var
\* options for the keys a and aa with a templated config file
Init ==
    /\ \/ /\ argv \in SeqsUpTo(ArgStrings, MaxVars)
          /\ configFileOnDisk = File(<<>>)
       \/ /\ argv = <<>>
          /\ configFileOnDisk \in {NoFile} \cup {File(d) : d \in ConfigFiles}
       \/ /\ argv \in SeqsUpTo(VarOptions, MaxVars)
          /\ configFileOnDisk \in {File(d) : d \in TemplatedFiles}
    /\ files = [f \in {requestFilename, deployFilename} |-> NoFile]
    /\ commandLineVars = EmptyStringmap
    /\ pc = "flag.Parse"
    /\ status = "running"
    /\ singularityConfig = ZeroConfig
    /\ configTemplate = <<>>
    /\ rawConfig = <<>>
    /\ tmpl = "request"
    /\ jsonOutput = <<>>
    /\ err = Nil
    /\ trace = <<>>
    /\ lib = NoCall

\* log.Fatal / log.Fatalf: the process exits with status 1
Fatal(stage, e) ==
    /\ status' = "fatal"
    /\ err' = e
    /\ trace' = Append(trace, stage)
    /\ pc' = pc

\* flag.Parse hands the next -var value to commandLineVars.Set
FlagSet ==
    /\ status = "running" /\ pc = "flag.Parse" /\ argv # <<>>
    /\ LET r == Set(commandLineVars, Head(argv)) IN
       /\ argv' = Tail(argv)
       /\ commandLineVars' = r.s
       /\ IF r.fatal
          THEN Fatal(Stage("Set", "", Head(argv), FALSE), "var format")
          ELSE /\ trace' = Append(trace, Stage("Set", "", Head(argv), TRUE))
               /\ UNCHANGED <<pc, status, err>>
    /\ UNCHANGED <<lib, configFileOnDisk, files, singularityConfig, configTemplate,
                   rawConfig, tmpl, jsonOutput>>

\* flag.Parse returns; main calls loadConfig
FlagParsed ==
    /\ status = "running" /\ pc = "flag.Parse" /\ argv = <<>>
    /\ pc' = "template.ParseFiles"
    /\ UNCHANGED <<lib, argv, configFileOnDisk, files, commandLineVars, status,
                   singularityConfig, configTemplate, rawConfig, tmpl,
                   jsonOutput, err, trace>>

\* loadConfig, lines 341-350: Init, then the config file is read and parsed
\* as a template
LoadParseFiles ==
    /\ status = "running" /\ pc = "template.ParseFiles"
    /\ singularityConfig' = ConfigInit(ZeroConfig)
    /\ LET r == IF configFileOnDisk.exists
                THEN ParseFiles(configFileOnDisk.bytes)
                ELSE [err |-> "os.PathError", tmpl |-> <<>>]
       IN IF r.err # Nil
          THEN /\ Fatal(Stage("read", "", <<>>, FALSE), r.err)
               /\ UNCHANGED configTemplate
          ELSE /\ configTemplate' = r.tmpl
               /\ pc' = "range commandLineVars"
               /\ trace' = Append(trace, Stage("read", "", <<>>, TRUE))
               /\ UNCHANGED <<status, err>>
    /\ UNCHANGED <<lib, argv, configFileOnDisk, files, commandLineVars, rawConfig,
                   tmpl, jsonOutput>>

\* loadConfig, lines 352-356: singularityConfigData is declared and never
\* made, so it is a nil map, and the first assignment into it panics
LoadCopyVars ==
    /\ status = "running" /\ pc = "range commandLineVars"
    /\ IF DOMAIN commandLineVars # {}
       THEN /\ status' = "panic"
            /\ err' = "assignment to entry in nil map"
            /\ trace' = Append(trace, Stage("substitute", "", <<>>, FALSE))
            /\ pc' = pc
       ELSE /\ pc' = "configTemplate.Execute"
            /\ UNCHANGED <<status, err, trace>>
    /\ UNCHANGED <<lib, argv, configFileOnDisk, files, commandLineVars,
                   singularityConfig, configTemplate, rawConfig, tmpl,
                   jsonOutput>>

\* loadConfig, lines 358-368: the template is executed with the nil map
LoadExecute ==
    /\ status = "running" /\ pc = "configTemplate.Execute"
    /\ rawConfig' = ExecuteConfig(configTemplate, EmptyStringmap)
    /\ pc' = "yaml.Unmarshal"
    /\ trace' = Append(trace, Stage("substitute", "", <<>>, TRUE))
    /\ UNCHANGED <<lib, argv, configFileOnDisk, files, commandLineVars, status,
                   singularityConfig, configTemplate, tmpl, jsonOutput, err>>

\* mutant of LoadUnmarshal: the error of yaml.Unmarshal is logged and
\* loadConfig returns the config all the same
LoadUnmarshal_ignoresErr ==
    /\ status = "running" /\ pc = "yaml.Unmarshal"
    /\ LET r == Unmarshal(rawConfig, singularityConfig) IN
       /\ singularityConfig' = r.out
       /\ pc' = "tmpl.Execute"
       /\ trace' = Append(trace, Stage("parse", "", <<>>, r.err = Nil))
       /\ UNCHANGED <<status, err>>
    /\ UNCHANGED <<lib, argv, configFileOnDisk, files, commandLineVars,
                   configTemplate, rawConfig, tmpl, jsonOutput>>

\* loadConfig, lines 370-384, and its return to main
LoadUnmarshal ==
    /\ status = "running" /\ pc = "yaml.Unmarshal"
    /\ LET r == Unmarshal(rawConfig, singularityConfig) IN
       /\ singularityConfig' = r.out
       /\ IF r.err # Nil
          THEN Fatal(Stage("parse", "", <<>>, FALSE), r.err)
          ELSE /\ pc' = "tmpl.Execute"
               /\ trace' = Append(trace, Stage("parse", "", <<>>, TRUE))
               /\ UNCHANGED <<status, err>>
    /\ UNCHANGED <<lib, argv, configFileOnDisk, files, commandLineVars,
                   configTemplate, rawConfig, tmpl, jsonOutput>>

\* the template main passes to process for a document
TemplateOf(doc) == IF doc = "request" THEN requestTemplate ELSE deployTemplate
FilenameOf(doc) == IF doc = "request" THEN requestFilename ELSE deployFilename

\* mutant of ProcessExecute: process works on main's Config through a
\* pointer and applies the defaults again after rendering
ProcessExecute_reinit ==
    /\ status = "running" /\ pc = "tmpl.Execute"
    /\ LET r == Execute(TemplateOf(tmpl), singularityConfig) IN
       /\ jsonOutput' = r.out
       /\ singularityConfig' = ConfigInit(singularityConfig)
       /\ pc' = "checkJSON"
       /\ trace' = Append(trace, Stage("render", tmpl, <<>>, TRUE))
       /\ UNCHANGED <<status, err>>
    /\ UNCHANGED <<lib, argv, configFileOnDisk, files, commandLineVars,
                   configTemplate, rawConfig, tmpl>>

\* process, lines 304-316: the JSON is generated
ProcessExecute ==
    /\ status = "running" /\ pc = "tmpl.Execute"
    /\ LET r == Execute(TemplateOf(tmpl), singularityConfig) IN
       /\ jsonOutput' = r.out
       /\ IF r.err # Nil
          THEN Fatal(Stage("render", tmpl, <<>>, FALSE), r.err)
          ELSE /\ pc' = "checkJSON"
               /\ trace' = Append(trace, Stage("render", tmpl, <<>>, TRUE))
               /\ UNCHANGED <<status, err>>
    /\ UNCHANGED <<lib, argv, configFileOnDisk, files, commandLineVars,
                   singularityConfig, configTemplate, rawConfig, tmpl>>

\* mutant of ProcessCheckJSON: an invalid document is logged and process
\* goes on to write it
ProcessCheckJSON_goesOn ==
    /\ status = "running" /\ pc = "checkJSON"
    /\ err' = checkJSON(jsonOutput)
    /\ pc' = "writeFile"
    /\ trace' = Append(trace, Stage("validate", tmpl, jsonOutput, err' = Nil))
    /\ UNCHANGED <<lib, argv, configFileOnDisk, files, commandLineVars, status,
                   singularityConfig, configTemplate, rawConfig, tmpl,
                   jsonOutput>>

\* process, lines 318-326: the JSON is checked; an error goes back to main,
\* which ends the run
ProcessCheckJSON ==
    /\ status = "running" /\ pc = "checkJSON"
    /\ LET e == checkJSON(jsonOutput) IN
       IF e # Nil
       THEN Fatal(Stage("validate", tmpl, jsonOutput, FALSE), e)
       ELSE /\ pc' = "writeFile"
            /\ trace' = Append(trace, Stage("validate", tmpl, jsonOutput, TRUE))
            /\ UNCHANGED <<status, err>>
    /\ UNCHANGED <<lib, argv, configFileOnDisk, files, commandLineVars,
                   singularityConfig, configTemplate, rawConfig, tmpl,
                   jsonOutput>>

\* process, lines 328-337, and main after it: the next document, or the end
ProcessWriteFile ==
    /\ status = "running" /\ pc = "writeFile"
    /\ \E outcome \in WriteOutcomes :
          LET r == writeFile(files, FilenameOf(tmpl), jsonOutput, outcome) IN
          /\ files' = r.fs
          /\ IF r.err # Nil
             THEN /\ Fatal(Stage("write", tmpl, jsonOutput, FALSE), r.err)
                  /\ UNCHANGED tmpl
             ELSE /\ trace' = Append(trace, Stage("write", tmpl, jsonOutput, TRUE))
                  /\ err' = Nil
                  /\ IF tmpl = "request"
                     THEN /\ tmpl' = "deploy"
                          /\ pc' = "tmpl.Execute"
                          /\ UNCHANGED status
                     ELSE /\ pc' = "return"
                          /\ status' = "exit 0"
                          /\ UNCHANGED tmpl
    /\ UNCHANGED <<lib, argv, configFileOnDisk, commandLineVars, singularityConfig,
                   configTemplate, rawConfig, jsonOutput>>

Next ==
    \/ FlagSet
    \/ FlagParsed
    \/ LoadParseFiles
    \/ LoadCopyVars
    \/ LoadExecute
    \/ LoadUnmarshal
    \/ ProcessExecute
    \/ ProcessCheckJSON
    \/ ProcessWriteFile

Spec == Init /\ [][Next]_vars

(***************************************************************************)
(* The tests of the helpers (src/main_test.go): a helper is called on one  *)
(* input, up to MaxCalls times; main does not run.                         *)
(***************************************************************************)
TestInit ==
    /\ lib \in TestCalls
    /\ argv = <<>>
    /\ configFileOnDisk = NoFile
    /\ files = [f \in {requestFilename, deployFilename} |-> NoFile]
    /\ commandLineVars = EmptyStringmap
    /\ pc = "go test"
    /\ status = "running"
    /\ singularityConfig = ZeroConfig
    /\ configTemplate = <<>>
    /\ rawConfig = <<>>
    /\ tmpl = "request"
    /\ jsonOutput = <<>>
    /\ err = Nil
    /\ trace = <<>>

mainVars == <<argv, configFileOnDisk, files, commandLineVars, pc, status,
              singularityConfig, configTemplate, rawConfig, tmpl, jsonOutput,
              err, trace>>

CallMakeStringJSONSafe ==
    /\ lib.fn = "makeStringJSONSafe" /\ Len(lib.outs) < MaxCalls
    /\ lib' = [lib EXCEPT !.outs = Append(@, makeStringJSONSafe(lib.str))]
    /\ UNCHANGED mainVars

CallWriteMapItems ==
    /\ lib.fn = "WriteMapItems" /\ Len(lib.outs) < MaxCalls
    /\ \E order \in RangeOrders(lib.m) :
          lib' = [lib EXCEPT !.outs = Append(@, WriteMapItems(lib.m, order))]
    /\ UNCHANGED mainVars

CallWriteMap ==
    /\ lib.fn = "WriteMap" /\ Len(lib.outs) < MaxCalls
    /\ \E order \in RangeOrders(lib.m) :
          lib' = [lib EXCEPT !.outs = Append(@, WriteMap(lib.key, lib.m, order))]
    /\ UNCHANGED mainVars

TestNext ==
    \/ CallMakeStringJSONSafe
    \/ CallWriteMapItems
    \/ CallWriteMap

TestSpec == TestInit /\ [][TestNext]_vars

(***************************************************************************)
(* Properties.                                                             *)
(***************************************************************************)
Last(q) == q[Len(q)]

\* the history has an entry of this stage and document with this outcome
Did(name, doc, ok) ==
    \E i \in 1..Len(trace) :
        trace[i].stage = name /\ trace[i].doc = doc /\ trace[i].ok = ok

\* writeFile was called for the document in this run
WriteFileCalled(doc) ==
    \E i \in 1..Len(trace) : trace[i].stage = "write" /\ trace[i].doc = doc

\* C1: both-or-nothing gate: in a run where rendering or checkJSON fails for
\* the request or the deploy document, writeFile is called for neither
\* document and neither output file exists.
C1_BothOrNothing ==
    (\E doc \in {"request", "deploy"} :
        Did("render", doc, FALSE) \/ Did("validate", doc, FALSE))
    => /\ ~WriteFileCalled("request")
       /\ ~WriteFileCalled("deploy")
       /\ ~files[requestFilename].exists
       /\ ~files[deployFilename].exists

IsPrefix(p, q) == Len(p) <= Len(q) /\ SubSeq(q, 1, Len(p)) = p

\* C2: writeFile is called for a document only right after tmpl.Execute
\* succeeded and checkJSON returned nil on exactly the bytes handed to
\* writeFile; after a render or validation error no writeFile follows; so an
\* output file only ever holds bytes of a document that passed checkJSON.
C2_WriteOnlyValidated ==
    /\ \A i \in 1..Len(trace) :
          trace[i].stage = "write" =>
             /\ i >= 3
             /\ trace[i - 1] = Stage("validate", trace[i].doc, trace[i].arg, TRUE)
             /\ trace[i - 2] = Stage("render", trace[i].doc, <<>>, TRUE)
             /\ checkJSON(trace[i].arg) = Nil
    /\ \A i \in 1..Len(trace) :
          (trace[i].stage \in {"render", "validate"} /\ ~trace[i].ok)
             => i = Len(trace)
    /\ \A doc \in {"request", "deploy"} :
          files[FilenameOf(doc)].exists =>
             \E i \in 1..Len(trace) :
                /\ trace[i].stage = "write" /\ trace[i].doc = doc
                /\ IsPrefix(files[FilenameOf(doc)].bytes, trace[i].arg)
                /\ trace[i].ok => files[FilenameOf(doc)].bytes = trace[i].arg

\* C2 witness: the request document passed checkJSON and was written, the
\* deploy document failed checkJSON and no deploy file was produced
C2_Witness ==
    /\ Did("write", "request", TRUE)
    /\ files[requestFilename].exists
    /\ Did("validate", "deploy", FALSE)
    /\ ~files[deployFilename].exists

\* the stages of a run after flag parsing, in the order of the pipeline
Pipeline == <<
    <<"read", "">>, <<"substitute", "">>, <<"parse", "">>,
    <<"render", "request">>, <<"validate", "request">>, <<"write", "request">>,
    <<"render", "deploy">>, <<"validate", "deploy">>, <<"write", "deploy">>>>

\* the history without the -var arguments
PipelineTrace == SelectSeq(trace, LAMBDA e : e.stage # "Set")

\* C3: the stages run in the order read, substitute, parse, then render,
\* validate, write of the request and of the deploy document; a stage runs
\* only after every earlier one succeeded; a stage that fails is the last
\* one executed and ends the run; the run exits with 0 exactly when all
\* stages of both documents succeeded.
C3_StageOrder ==
    /\ Len(PipelineTrace) <= Len(Pipeline)
    /\ \A i \in 1..Len(PipelineTrace) :
          /\ PipelineTrace[i].stage = Pipeline[i][1]
          /\ PipelineTrace[i].doc = Pipeline[i][2]
    /\ \A i \in 1..Len(trace) :
          /\ ~trace[i].ok => i = Len(trace) /\ status \in {"fatal", "panic"}
          /\ (trace[i].stage = "Set" /\ i > 1) => trace[i - 1].stage = "Set"
    /\ status \in {"fatal", "panic"} => trace # <<>> /\ ~Last(trace).ok
    /\ status = "exit 0" <=>
          /\ Len(PipelineTrace) = Len(Pipeline)
          /\ \A i \in 1..Len(trace) : trace[i].ok
    /\ status # "running" => ~ENABLED Next

\* C3 witness: every stage up to the validation of the deploy document
\* succeeded, that validation failed, and the run ended there
C3_Witness ==
    /\ status = "fatal"
    /\ Len(PipelineTrace) = 8
    /\ Last(trace).stage = "validate" /\ Last(trace).doc = "deploy"

\* the string holds no "="
NoDelim(k) == \A i \in 1..Len(k) : k[i] # "="

\* C4: Set splits on the first "=" only: after Set(key + "=" + value), for a
\* key without "=" and any value (which may hold "="), the lookup of key
\* gives exactly value.
C4_SetSplitsOnFirst ==
    (trace # <<>> /\ Last(trace).stage = "Set") =>
        \A k \in {x \in ArgStrings : NoDelim(x)} :
            \A v \in ArgStrings :
                Last(trace).arg = k \o <<"=">> \o v =>
                    /\ Last(trace).ok
                    /\ k \in DOMAIN commandLineVars
                    /\ commandLineVars[k] = v

\* C4 witness: Set("a==") was the last call and the lookup of "a" gives "="
C4_Witness ==
    /\ trace # <<>> /\ Last(trace).stage = "Set"
    /\ Last(trace).arg = <<"a", "=", "=">>
    /\ <<"a">> \in DOMAIN commandLineVars
    /\ commandLineVars[<<"a">>] = <<"=">>

\* no output file exists
NoOutput == \A f \in DOMAIN files : ~files[f].exists

\* C5, in every state: a Set whose argument holds no "=" has failed, it is
\* the last thing the run did, the run has ended fatally inside flag
\* parsing, config loading never started and no output file exists
C5_FatalState ==
    \A i \in 1..Len(trace) :
        (trace[i].stage = "Set" /\ NoDelim(trace[i].arg)) =>
            /\ ~trace[i].ok
            /\ i = Len(trace)
            /\ status = "fatal"
            /\ pc = "flag.Parse"
            /\ PipelineTrace = <<>>
            /\ singularityConfig = ZeroConfig
            /\ NoOutput

\* C5, in every step: the Set of an argument without "=" leaves the store
\* as it was
C5_StoreUnchanged ==
    (pc = "flag.Parse" /\ argv # <<>> /\ NoDelim(Head(argv)))
        => commandLineVars' = commandLineVars

\* C5: Set with an argument that holds no "=" is fatal: the store is left
\* unchanged, the program ends without loading the config, and no output
\* file is produced.
C5_NoDelimiterIsFatal == [] C5_FatalState /\ [][C5_StoreUnchanged]_vars

\* C5 witness: after a successful Set, a Set without "=" ended the run
C5_Witness ==
    /\ status = "fatal"
    /\ Len(trace) = 2
    /\ trace[1].stage = "Set" /\ trace[1].ok
    /\ trace[2].stage = "Set" /\ NoDelim(trace[2].arg) /\ ~trace[2].ok
    /\ DOMAIN commandLineVars # {}

\* the argument is key, "=", and a value
HasKey(arg, k) ==
    /\ NoDelim(k)
    /\ Len(arg) > Len(k)
    /\ SubSeq(arg, 1, Len(k)) = k
    /\ arg[Len(k) + 1] = "="

ValueOf(arg, k) == SubSeq(arg, Len(k) + 2, Len(arg))

\* the arguments handed to Set so far
SetArgs ==
    LET sets == SelectSeq(trace, LAMBDA e : e.stage = "Set")
    IN [i \in 1..Len(sets) |-> sets[i].arg]

\* C6: the store maps each key to the value of the most recent Set for that
\* key (a later Set overwrites), so a Set for one key leaves every other
\* key's value as it was, and the store holds no other key.
C6_LastSetWins ==
    /\ DOMAIN commandLineVars =
          {k \in ArgStrings : \E i \in 1..Len(SetArgs) : HasKey(SetArgs[i], k)}
    /\ \A k \in DOMAIN commandLineVars :
          \E i \in 1..Len(SetArgs) :
             /\ HasKey(SetArgs[i], k)
             /\ \A j \in (i + 1)..Len(SetArgs) : ~HasKey(SetArgs[j], k)
             /\ commandLineVars[k] = ValueOf(SetArgs[i], k)

\* C6 witness: two Sets for the key "a" with different values, the store
\* holds the second
C6_Witness ==
    /\ Len(SetArgs) = 2
    /\ HasKey(SetArgs[1], <<"a">>) /\ HasKey(SetArgs[2], <<"a">>)
    /\ ValueOf(SetArgs[1], <<"a">>) # ValueOf(SetArgs[2], <<"a">>)
    /\ <<"a">> \in DOMAIN commandLineVars
    /\ commandLineVars[<<"a">>] = ValueOf(SetArgs[2], <<"a">>)

\* loadConfig has returned a Config
Loaded == Did("parse", "", TRUE)

\* the entries of the config file with this top-level key
YamlEntries(key) ==
    SelectSeq(configFileOnDisk.bytes, LAMBDA e : e.key = <<key>>)

\* C7: a Config loaded from YAML without scheduled-expected-runtime-millis
\* has ScheduledExpectedRuntimeMillis = 360000, one loaded from YAML without
\* kill-old-non-long-running-tasks-after-millis has
\* KillOldNonLongRunningTasksAfterMillis = 10000, and a non-zero value given
\* in the YAML replaces the default.
C7_Defaults ==
    Loaded =>
       LET serm == YamlEntries("scheduled-expected-runtime-millis")
           kold == YamlEntries("kill-old-non-long-running-tasks-after-millis")
       IN /\ serm = <<>> =>
                singularityConfig.ScheduledExpectedRuntimeMillis = 360000
          /\ kold = <<>> =>
                singularityConfig.KillOldNonLongRunningTasksAfterMillis = 10000
          /\ (serm # <<>> /\ serm[1].node.n # 0) =>
                singularityConfig.ScheduledExpectedRuntimeMillis = serm[1].node.n
          /\ (kold # <<>> /\ kold[1].node.n # 0) =>
                singularityConfig.KillOldNonLongRunningTasksAfterMillis
                    = kold[1].node.n

\* C7 witness: a loaded Config whose YAML gives 7 for the kill threshold and
\* nothing for the expected runtime
C7_Witness ==
    /\ Loaded
    /\ YamlEntries("scheduled-expected-runtime-millis") = <<>>
    /\ YamlEntries("kill-old-non-long-running-tasks-after-millis") # <<>>
    /\ singularityConfig.KillOldNonLongRunningTasksAfterMillis = 7
    /\ singularityConfig.ScheduledExpectedRuntimeMillis = 360000

\* C8: in every Config returned by loadConfig neither
\* ScheduledExpectedRuntimeMillis nor KillOldNonLongRunningTasksAfterMillis
\* is zero, also when the YAML gives an explicit 0.
C8_NeverZero ==
    Loaded =>
       /\ singularityConfig.ScheduledExpectedRuntimeMillis # 0
       /\ singularityConfig.KillOldNonLongRunningTasksAfterMillis # 0

\* the byte sequence p occurs in b
Contains(b, p) ==
    \E i \in 0..(Len(b) - Len(p)) : SubSeq(b, i + 1, i + Len(p)) = p

\* C9: Init makes the volumes an explicit empty sequence, so that with a
\* container type set and no volumes configured the containerInfo fragment
\* (and so the deploy document) holds the member "volumes":[].
C9_EmptyVolumesEmitted ==
    (/\ Did("render", "deploy", TRUE)
     /\ singularityConfig.ContainerInfo.Type # <<>>
     /\ len(singularityConfig.ContainerInfo.Volumes) = 0)
    => /\ ~singularityConfig.ContainerInfo.Volumes.isNil
       /\ Contains(WriteContainerInfo(singularityConfig),
                   <<DQ, "volumes", DQ, ":", "[", "]">>)
       /\ Contains(jsonOutput, <<DQ, "volumes", DQ, ":", "[", "]">>)

\* the actions of the templates that call a fragment builder, and those that
\* print a string field between the template's own double quotes
Builders == {"WriteOwners", "WriteRequiredSlaveAttributes", "WriteSchedule",
             "WriteArguments", "WriteContainerInfo", "WriteEnv",
             "WriteResources"}
QuotedFields == {"RequestType", "RequestID", "DeployID"}

\* a fragment is valid JSON by itself: it is absent, or it is one member
\* followed by a comma
FragmentValid(f) ==
    \/ f = <<>>
    \/ /\ Last(f) = ","
       /\ checkJSON(<<"{">> \o SubSeq(f, 1, Len(f) - 1) \o <<"}">>) = Nil

\* every fragment the template's builders return for the Config is valid
FragmentsValid(t, s) ==
    \A i \in 1..Len(t) :
        (t[i].action /\ t[i].name \in Builders)
            => FragmentValid(EvalField(t[i].name, s))

\* every string field the template prints between double quotes is a JSON
\* string as it stands (no double quote, backslash or line break in it)
QuotedFieldsSafe(t, s) ==
    \A i \in 1..Len(t) :
        (t[i].action /\ t[i].name \in QuotedFields)
            => checkJSON(<<DQ>> \o EvalField(t[i].name, s) \o <<DQ>>) = Nil

\* no comma is followed, white space apart, by a closing brace
NoDanglingComma(b) ==
    \A i \in 1..Len(b) : b[i] = "," => At(b, SkipSpace(b, i + 1)) # "}"

\* C10 as stated: whatever optional members are present or absent, a document
\* rendered from a Config whose fragments are individually valid JSON passes
\* checkJSON, and no comma in it is followed by a closing brace.
C10_FragmentsValidDocValid ==
    \A i \in 1..Len(trace) :
        trace[i].stage = "validate" =>
           /\ FragmentsValid(TemplateOf(trace[i].doc), singularityConfig)
                 => trace[i].ok
           /\ NoDanglingComma(trace[i].arg)

\* C10 amended: whatever optional members are present or absent, a document
\* rendered from a Config whose fragments are individually valid JSON and
\* whose RequestType, RequestID and DeployID need no JSON escaping passes
\* checkJSON; and in every rendered document no comma is followed by a
\* closing brace.
C10_SafeFieldsDocValid ==
    \A i \in 1..Len(trace) :
        trace[i].stage = "validate" =>
           /\ (/\ FragmentsValid(TemplateOf(trace[i].doc), singularityConfig)
               /\ QuotedFieldsSafe(TemplateOf(trace[i].doc), singularityConfig))
                 => trace[i].ok
           /\ NoDanglingComma(trace[i].arg)

\* C10 witness: a deploy document with arguments and env present and
\* containerInfo absent, all fragments and fields valid, passed checkJSON
C10_Witness ==
    /\ Did("validate", "deploy", TRUE)
    /\ FragmentsValid(deployTemplate, singularityConfig)
    /\ QuotedFieldsSafe(deployTemplate, singularityConfig)
    /\ WriteArguments(singularityConfig) # <<>>
    /\ WriteEnv(singularityConfig) # <<>>
    /\ WriteContainerInfo(singularityConfig) = <<>>

\* the bytes handed to checkJSON for the document, when it was rendered
Rendered(doc) ==
    LET es == SelectSeq(trace, LAMBDA e : e.stage = "validate" /\ e.doc = doc)
    IN IF es = <<>> THEN <<>> ELSE es[1].arg

\* the document has a member of this name
HasMember(b, name) == Contains(b, <<DQ, name, DQ, ":">>)

\* C11: WriteResources returns the empty string when Resources is the zero
\* struct, and the deploy document rendered from such a Config has no
\* "resources" member.
C11_ZeroResourcesOmitted ==
    (Loaded /\ singularityConfig.Resources = ZeroResources) =>
        /\ WriteResources(singularityConfig) = <<>>
        /\ ~HasMember(Rendered("deploy"), "resources")

\* C12: WriteRequiredSlaveAttributes returns the empty string for every
\* empty mapping, nil or set without entries, and the request document
\* rendered from such a Config has no "requiredSlaveAttributes" member.
C12_EmptyAttributesOmitted ==
    (Loaded /\ len(singularityConfig.RequiredSlaveAttributes) = 0) =>
        /\ WriteRequiredSlaveAttributes(singularityConfig) = <<>>
        /\ ~HasMember(Rendered("request"), "requiredSlaveAttributes")

\* exactly one fragment "name": <JSON value>, with a single trailing comma
OneFragment(f, name) ==
    /\ Len(f) >= 7
    /\ SubSeq(f, 1, 5) = <<DQ, name, DQ, ":", SP>>
    /\ Last(f) = ","
    /\ checkJSON(SubSeq(f, 6, Len(f) - 1)) = Nil

\* C13: each of WriteOwners, WriteArguments, WriteEnv and WriteSchedule
\* returns the empty string exactly when its source value is empty (a nil or
\* empty list, a nil or empty mapping, the empty string), and otherwise
\* exactly one fragment "name": <JSON value>, ending with a single comma.
C13_EmptyOrOneFragment ==
    Loaded =>
       LET s == singularityConfig
           fragments == <<
               <<WriteOwners(s), "owners", len(s.Owners) = 0>>,
               <<WriteArguments(s), "arguments", len(s.Arguments) = 0>>,
               <<WriteEnv(s), "env", len(s.Env) = 0>>,
               <<WriteSchedule(s), "schedule", s.Schedule = <<>> >> >>
       IN \A i \in 1..Len(fragments) :
             /\ fragments[i][3] <=> fragments[i][1] = <<>>
             /\ ~fragments[i][3] => OneFragment(fragments[i][1], fragments[i][2])

\* C13 witness: a loaded Config with an owner, an env mapping that is set
\* but empty and no schedule: one owners fragment, no env or schedule
\* fragment
C13_Witness ==
    /\ Loaded
    /\ len(singularityConfig.Owners) = 1
    /\ OneFragment(WriteOwners(singularityConfig), "owners")
    /\ ~singularityConfig.Env.isNil /\ len(singularityConfig.Env) = 0
    /\ WriteEnv(singularityConfig) = <<>>
    /\ WriteSchedule(singularityConfig) = <<>>

\* C14: the deploy document has a "containerInfo" member if and only if
\* ContainerInfo.Type is not empty; with no container type the member is
\* absent even when other container fields (the docker image) are set.
C14_ContainerInfoIffType ==
    \A i \in 1..Len(trace) :
        (trace[i].stage = "validate" /\ trace[i].doc = "deploy") =>
            /\ HasMember(trace[i].arg, "containerInfo")
                  <=> singularityConfig.ContainerInfo.Type # <<>>
            /\ singularityConfig.ContainerInfo.Type = <<>> =>
                  /\ ~Contains(trace[i].arg, <<"docker">>)
                  /\ ~Contains(trace[i].arg, singularityConfig.ContainerInfo.Docker.Image)
                        \/ singularityConfig.ContainerInfo.Docker.Image = <<>>

\* C14 witness: a deploy document rendered from a Config with a docker image
\* and no container type, without a containerInfo member
C14_Witness ==
    /\ Did("validate", "deploy", TRUE)
    /\ singularityConfig.ContainerInfo.Type = <<>>
    /\ singularityConfig.ContainerInfo.Docker.Image # <<>>
    /\ ~HasMember(Rendered("deploy"), "containerInfo")

\* the run has left the substitution stage of loadConfig, or has ended in it
PastSubstitution ==
    /\ configFileOnDisk.exists
    /\ pc # "flag.Parse"
    /\ \/ status # "running"
       \/ pc \notin {"template.ParseFiles", "range commandLineVars",
                     "configTemplate.Execute"}

\* the placeholders {{identifier}} of the config file
Placeholders ==
    {i \in 1..Len(configFileOnDisk.bytes) :
        configFileOnDisk.bytes[i].node.kind = "call"}

\* the placeholders whose identifier is an override key
Matching ==
    {i \in Placeholders :
        configFileOnDisk.bytes[i].node.s \in DOMAIN commandLineVars}

\* the config text with every matching placeholder replaced by its value and
\* everything else as it is
Substituted ==
    [i \in 1..Len(configFileOnDisk.bytes) |->
        IF i \in Matching
        THEN [key |-> configFileOnDisk.bytes[i].key,
              node |-> StrNode(commandLineVars[configFileOnDisk.bytes[i].node.s])]
        ELSE configFileOnDisk.bytes[i]]

\* C15: substitution replaces every {{identifier}} of the raw config text
\* whose identifier is an override key by that key's value and leaves all
\* other text unchanged.
C15_PlaceholdersReplaced ==
    (PastSubstitution /\ Matching # {}) =>
        /\ Did("substitute", "", TRUE)
        /\ rawConfig = Substituted

\* C16: when no placeholder of the text matches an override key (the store
\* may be empty, the text may hold unresolved {{name}} tokens), substitution
\* does not fail and its output equals its input.
C16_NoMatchVerbatim ==
    (PastSubstitution /\ Matching = {}) =>
        /\ Did("substitute", "", TRUE)
        /\ rawConfig = configFileOnDisk.bytes

\* the entries of the config file whose value is the action {{.k}}, the form
\* the template engine of loadConfig looks up in its data
References(k) ==
    {i \in 1..Len(configFileOnDisk.bytes) :
        /\ configFileOnDisk.bytes[i].node.kind = "field"
        /\ configFileOnDisk.bytes[i].node.s = k}

\* the override keys whose value holds a token
KeysWithToken ==
    {k \in DOMAIN commandLineVars : Contains(commandLineVars[k], <<"{{">>)}

\* C17: substitution is a single pass: when an override value itself holds
\* a token of another override key, the output holds the value as it is,
\* with the token inside it not expanded (stated for config files all of
\* whose actions have the form {{.name}}).
C17_SinglePass ==
    \A k \in KeysWithToken :
        (PastSubstitution
         /\ References(k) # {}
         /\ Placeholders = {}
         /\ <<"a", "a">> \in DOMAIN commandLineVars) =>
            /\ Did("substitute", "", TRUE)
            /\ \A i \in References(k) :
                  rawConfig[i].node = StrNode(commandLineVars[k])

\* the number of positions of s that hold c
RECURSIVE Count(_, _)
Count(s, c) ==
    IF s = <<>> THEN 0 ELSE (IF Head(s) = c THEN 1 ELSE 0) + Count(Tail(s), c)

\* the number of backslash + double-quote pairs in s
Pairs(s) ==
    Cardinality({i \in 1..(Len(s) - 1) : s[i] = BS /\ s[i + 1] = DQ})

\* s without the backslash in front of each double quote
RECURSIVE Unescaped(_)
Unescaped(s) ==
    IF s = <<>> THEN <<>>
    ELSE IF Len(s) >= 2 /\ s[1] = BS /\ s[2] = DQ
         THEN <<DQ>> \o Unescaped(SubSeq(s, 3, Len(s)))
         ELSE <<Head(s)>> \o Unescaped(Tail(s))

\* C18: makeStringJSONSafe replaces every double quote of its input by
\* backslash + double quote and changes no other character: the output has
\* as many backslash-quote pairs as the input has quotes, every quote of the
\* output is in such a pair, taking the added backslashes away gives the
\* input back, and an input without quotes is returned unchanged.
C18_EveryQuoteEscaped ==
    lib.fn = "makeStringJSONSafe" =>
        \A i \in 1..Len(lib.outs) :
            /\ Pairs(lib.outs[i]) = Count(lib.str, DQ)
            /\ Count(lib.outs[i], DQ) = Count(lib.str, DQ)
            /\ Len(lib.outs[i]) = Len(lib.str) + Count(lib.str, DQ)
            /\ Unescaped(lib.outs[i]) = lib.str
            /\ Count(lib.str, DQ) = 0 => lib.outs[i] = lib.str

\* C18 witness: the call of TestMakeStringJSONSafe has returned
\* {\"i\":\"am\",\"a\":\"test\"}
C18_Witness ==
    /\ lib.fn = "makeStringJSONSafe" /\ lib.str = TestString
    /\ lib.outs # <<>>
    /\ lib.outs[1] =
          <<"{", BS, DQ, "i", BS, DQ, ":", BS, DQ, "am", BS, DQ, ",", BS, DQ,
            "a", BS, DQ, ":", BS, DQ, "test", BS, DQ, "}">>

\* the mapping {key1: value1, key2: value2} of the tests
TestMap ==
    [k \in TestKeys |-> IF k = <<"key", "1">> THEN <<"value", "1">>
                                              ELSE <<"value", "2">>]

\* "key1":"value1","key2":"value2"
TestMapItems ==
    <<DQ, "key", "1", DQ, ":", DQ, "value", "1", DQ, ",",
      DQ, "key", "2", DQ, ":", DQ, "value", "2", DQ>>

\* C19: WriteMap and WriteMapItems are deterministic in member order: for
\* {key1: value1, key2: value2} WriteMapItems always returns
\* "key1":"value1","key2":"value2" and WriteMap("element", m) always returns
\* "element": {"key1":"value1","key2":"value2"}, and two calls on the same
\* mapping never return different strings.
C19_DeterministicOrder ==
    /\ (lib.fn = "WriteMapItems" /\ lib.m = TestMap) =>
          \A i \in 1..Len(lib.outs) : lib.outs[i] = TestMapItems
    /\ (lib.fn = "WriteMap" /\ lib.m = TestMap) =>
          \A i \in 1..Len(lib.outs) :
             lib.outs[i] = <<DQ, "element", DQ, ":", SP, "{">>
                             \o TestMapItems \o <<"}", ",">>
    /\ lib.fn \in {"WriteMap", "WriteMapItems"} =>
          \A i, j \in 1..Len(lib.outs) : lib.outs[i] = lib.outs[j]

\* the Config loadConfig produced from the templated YAML
LoadedConfig == Unmarshal(rawConfig, ConfigInit(ZeroConfig)).out

\* C20: the Config is immutable after loadConfig returns: rendering,
\* validating and writing a document changes no field of it, each document
\* is rendered from exactly the Config loadConfig produced, and so the
\* request's "id" and the deploy's "requestId" hold the same RequestID.
C20_ConfigImmutable ==
    Loaded =>
        /\ singularityConfig = LoadedConfig
        /\ \A i \in 1..Len(trace) :
              trace[i].stage = "validate" =>
                 trace[i].arg = Execute(TemplateOf(trace[i].doc), LoadedConfig).out
        /\ Rendered("request") # <<>> =>
              Contains(Rendered("request"),
                       <<DQ, "id", DQ, ":", SP, DQ>> \o LoadedConfig.RequestID
                           \o <<DQ, NL, "}">>)
        /\ Rendered("deploy") # <<>> =>
              Contains(Rendered("deploy"),
                       <<DQ, "requestId", DQ, ":", SP, DQ>> \o LoadedConfig.RequestID
                           \o <<DQ, ",">>)

\* C20 witness: both documents were rendered, validated and written from a
\* Config with a request id, and the Config is still the loaded one
C20_Witness ==
    /\ status = "exit 0"
    /\ singularityConfig.RequestID = <<"r">>
    /\ singularityConfig = LoadedConfig
    /\ Did("write", "request", TRUE) /\ Did("write", "deploy", TRUE)

\* C21: for every override store built from -var arguments, a non-empty one
\* included, loadConfig copies the overrides into the substitution variables
\* and reaches the YAML parsing stage without crashing: the run never
\* panics, and with valid -var options and a config file that parses as a
\* template the substitution stage succeeds.
C21_VarsDoNotCrash ==
    /\ status # "panic"
    /\ (/\ DOMAIN commandLineVars # {}
        /\ PastSubstitution
        /\ Did("read", "", TRUE))
       => Did("substitute", "", TRUE)

====
